---- MODULE Spec2Model ----
(***************************************************************************)
(* Model of ut803.py: the UT803 frame decoder (chrToInt, UT803.read,       *)
(* UT803.getUnit, UT803.getExponentOffsetForUnit, prettyValueFormat,       *)
(* UT803.close) and the streaming loop of interactive().                   *)
(*                                                                         *)
(* Representation.                                                         *)
(*  - A character is its code point; a line is a sequence of code points   *)
(*    (the line is decoded as ASCII, so code points are 0..127).  Python   *)
(*    indexes from 0 and TLA+ from 1: line[5] of the source is line[6].    *)
(*  - A float that read computes is float(base) * 10**exponent; it is kept *)
(*    as the pair [m |-> signed base, e |-> exponent] standing for         *)
(*    m * 10^e, because the magnitudes (1e-12 .. 1e19) do not fit TLC's    *)
(*    integers.                                                            *)
(*  - A call either returns, Return(v), or raises, Raise(name).            *)
(*  - Time is counted in ticks of 1/64 s, which are exact as binary        *)
(*    floats, so t - last_time < 0.05 is exactly 20 * ticks < 64.          *)
(*  - A stream is the sequence of the texts that the write calls which    *)
(*    returned have given it; dirty tells whether f still buffers some of  *)
(*    it.  A write that raises adds nothing.                               *)
(***************************************************************************)
EXTENDS Integers, Sequences, FiniteSets, TLC

VARIABLES
    call,                 \* the last library call made: [fn, args]
    ret,                  \* its outcome: Pending, Return(v) or Raise(e)
    pc,                   \* position of interactive()
    exc,                  \* the exception interactive() is unwinding with
    conn,                 \* UT803.conn: Serial or None
    port,                 \* the serial.Serial object: "open" or "closed"
    f,                    \* the output file object: "open" or "closed"
    dirty,                \* f holds written text that is not flushed yet
    args,                 \* parsed command line: [output, monitor, delay]
    tty,                  \* sys.stdout is a terminal (line-buffered), not a
                          \* pipe or a file (block-buffered)
    encoding,             \* the encodings f and sys.stdout write their
                          \* text in: [f, stdout]
    current_measurement,  \* local of interactive()
    initial_time,         \* local of interactive(), ticks
    last_time,            \* local of interactive(), ticks
    clock,                \* what time.time() returned last, ticks
    out,                  \* the lines written to f, in order
    screen,               \* what went to sys.stdout when f is a file
    hist                  \* the readings the loop has decoded, in order: kind,
                          \* unit, time.time() of line 207, the position in
                          \* out of the data line written for it (0: none),
                          \* and how the loop body ended on it

vars == <<call, ret, pc, exc, conn, port, f, dirty, args, tty, encoding,
          current_measurement, initial_time, last_time, clock,
          out, screen, hist>>

(***************************************************************************)
(* Bounds                                                                  *)
(***************************************************************************)
\* largest code point of a decoded ASCII character
MaxChar == 127
\* number of decoded readings after which the loop is not followed further
MaxReads == 3

(***************************************************************************)
(* Outcomes of a call                                                      *)
(***************************************************************************)
\* Python's None
None == [none |-> TRUE]

\* the serial.Serial object that UT803.__init__ stores in self.conn
Serial ==
    [baudrate |-> 19200, bytesize |-> 7, parity |-> "O", stopbits |-> 1,
     timeout |-> 2, xonxoff |-> 1, rtscts |-> 0, dsrdtr |-> 0,
     dtr |-> TRUE, rts |-> FALSE]

Return(v) == [exc |-> "none", val |-> v]

Raise(e) == [exc |-> e]

Returned(o) == o.exc = "none"

(***************************************************************************)
(* chrToInt                                                                *)
(***************************************************************************)
chrToInt_off(c) ==
    LET num == c - 48
    IN  IF 0 <= num /\ num <= 16 THEN Return(num) ELSE Raise("TypeError")

chrToInt(c) ==
    LET num == c - 48
    IN  IF 0 <= num /\ num <= 15 THEN Return(num) ELSE Raise("TypeError")

(***************************************************************************)
(* UT803.measurement_type_table                                            *)
(***************************************************************************)
measurement_type_table_all ==
    [code \in 0..15 |-> "voltage"]

measurement_type_table ==
    (1 :> "diode") @@ (2 :> "frequency") @@ (3 :> "resistance") @@
    (4 :> "temperature") @@ (5 :> "continuity") @@ (6 :> "capacitance") @@
    (9 :> "current") @@ (11 :> "voltage") @@ (13 :> "current") @@
    (14 :> "hFE") @@ (15 :> "current")

\* n & mask for a mask that is a power of two
BitAnd(n, mask) == ((n \div mask) % 2) * mask

(***************************************************************************)
(* UT803.getUnit and UT803.getExponentOffsetForUnit                        *)
(***************************************************************************)
static_units ==
    (1 :> "V") @@ (2 :> "Hz") @@ (3 :> "Ohm") @@ (5 :> "Ohm") @@
    (6 :> "F") @@ (9 :> "A") @@ (11 :> "V") @@ (13 :> "uA") @@
    (14 :> "") @@ (15 :> "mA")

getUnit_collapsed(measurement, flags) ==
    IF measurement \in {9, 13, 15}
    THEN "A"
    ELSE IF measurement \in DOMAIN static_units
         THEN static_units[measurement]
         ELSE IF measurement = 4
              THEN (IF BitAnd(flags[1], 8) # 0 THEN "°C" ELSE "°F")
              ELSE "???"

getUnit(measurement, flags) ==
    IF measurement \in DOMAIN static_units
    THEN static_units[measurement]
    ELSE IF measurement = 4
         THEN (IF BitAnd(flags[1], 8) # 0 THEN "°C" ELSE "°F")
         ELSE "???"

exponent_offsets ==
    ("V" :> -3) @@ ("Ohm" :> -1) @@ ("A" :> -2) @@ ("mA" :> -2) @@
    ("uA" :> -1) @@ ("F" :> (-3 - 9))

getExponentOffsetForUnit(unit) ==
    IF unit \in DOMAIN exponent_offsets THEN exponent_offsets[unit] ELSE 0

(***************************************************************************)
(* int(line[1:5]): Python's int() of a str, base 10.  It strips leading    *)
(* and trailing whitespace, accepts one sign, and then wants decimal       *)
(* digits, single underscores allowed between two digits.                  *)
(***************************************************************************)
IsSpace(c) == c \in {9, 10, 11, 12, 13, 32}

IsDigit(c) == c \in 48..57

RECURSIVE LStrip(_)
LStrip(s) ==
    IF s # <<>> /\ IsSpace(Head(s)) THEN LStrip(Tail(s)) ELSE s

RECURSIVE RStrip(_)
RStrip(s) ==
    IF s # <<>> /\ IsSpace(s[Len(s)])
    THEN RStrip(SubSeq(s, 1, Len(s) - 1))
    ELSE s

\* the value of digit (["_"] digit)*, or -1 when s is not of that form;
\* prev is what was consumed last: "start", "digit" or "underscore"
RECURSIVE DigitsValue(_, _, _)
DigitsValue(s, acc, prev) ==
    IF s = <<>>
    THEN (IF prev = "digit" THEN acc ELSE -1)
    ELSE IF IsDigit(Head(s))
         THEN DigitsValue(Tail(s), acc * 10 + (Head(s) - 48), "digit")
         ELSE IF Head(s) = 95 /\ prev = "digit"
              THEN DigitsValue(Tail(s), acc, "underscore")
              ELSE -1

int(s) ==
    LET t    == RStrip(LStrip(s))
        neg  == t # <<>> /\ Head(t) = 45
        body == IF t # <<>> /\ Head(t) \in {43, 45} THEN Tail(t) ELSE t
        v    == DigitsValue(body, 0, "start")
    IN  IF v = -1 THEN Raise("ValueError")
        ELSE Return(IF neg THEN 0 - v ELSE v)

(***************************************************************************)
(* UT803.read                                                              *)
(***************************************************************************)
\* float(base_value) * 10**exponent
Float(m, e) == [m |-> m, e |-> e]

Negate(value) == Float(0 - value.m, value.e)

\* the exponent before the unit's offset is added (lines 98-100)
AdjustedExponent_any(unit, exponent) ==
    IF BitAnd(exponent, 4) # 0 THEN exponent - 2 ELSE exponent

AdjustedExponent(unit, exponent) ==
    IF unit = "V" /\ BitAnd(exponent, 4) # 0 THEN exponent - 2 ELSE exponent

flags_dict(flags) ==
    [overload      |-> BitAnd(flags[1], 1) > 0,
     sign          |-> BitAnd(flags[1], 4) > 0,
     not_farenheit |-> BitAnd(flags[1], 8) > 0,
     min           |-> BitAnd(flags[2], 2) > 0,
     max           |-> BitAnd(flags[2], 4) > 0,
     hold          |-> BitAnd(flags[2], 8) > 0,
     autorange     |-> BitAnd(flags[3], 2) > 0,
     ac            |-> BitAnd(flags[3], 4) > 0,
     dc            |-> BitAnd(flags[3], 8) > 0]

\* lines 79-118, for a line of 11 characters
Decode(line) ==
    LET measurement == chrToInt(line[6])
    IN
    IF ~Returned(measurement) THEN measurement
    ELSE IF measurement.val \notin DOMAIN measurement_type_table
    THEN Raise("KeyError")
    ELSE
    LET meas_type == measurement_type_table[measurement.val]
        f0 == chrToInt(line[7])
        f1 == chrToInt(line[8])
        f2 == chrToInt(line[9])
    IN
    IF ~Returned(f0) THEN f0
    ELSE IF ~Returned(f1) THEN f1
    ELSE IF ~Returned(f2) THEN f2
    ELSE
    LET flags == <<f0.val, f1.val, f2.val>>
        sign  == BitAnd(flags[1], 4)
        unit  == getUnit(measurement.val, flags)
        e0    == chrToInt(line[1])
    IN
    IF ~Returned(e0) THEN e0
    ELSE
    LET exponent   == AdjustedExponent(unit, e0.val)
                      + getExponentOffsetForUnit(unit)
        base_value == int(SubSeq(line, 2, 5))
    IN
    IF ~Returned(base_value) THEN base_value
    ELSE
    LET value == Float(base_value.val, exponent)
    IN  Return([value   |-> IF sign # 0 THEN Negate(value) ELSE value,
                unit    |-> unit,
                measure |-> meas_type,
                flags   |-> flags_dict(flags)])

read(self_conn, line) ==
    IF self_conn = None THEN Return(None)
    ELSE IF line = <<>> \/ Len(line) # 11 THEN Return(None)
    ELSE Decode(line)

(***************************************************************************)
(* UT803.close                                                             *)
(***************************************************************************)
\* the connection and the port after self.close()
close(self_conn, serial_port) ==
    [conn |-> None,
     port |-> IF self_conn # None THEN "closed" ELSE serial_port]

(***************************************************************************)
(* prettyValueFormat                                                       *)
(***************************************************************************)
\* value < 1e<k>, for the thresholds k of prettyValueFormat.  The float
\* product 100.0 * 10**-11 is 9.999999999999999e-10, below 1e-9; every other
\* product of a base 1..9999 and a power 10**-14 .. 10**15 compares with
\* these thresholds as the exact number does.
Less(value, k) ==
    IF value.m <= 0 THEN TRUE
    ELSE IF value.m = 100 /\ value.e = -11 /\ k = -9 THEN TRUE
    ELSE IF k - value.e <= 0 THEN FALSE
    ELSE IF k - value.e > 4 THEN TRUE
    ELSE value.m < 10 ^ (k - value.e)

\* value * 1e<n>
Scale(value, n) == Float(value.m, value.e + n)

prettyValueFormat(value, unit) ==
    IF value.m = 0 THEN <<value, unit>>
    ELSE IF Less(value, -9) THEN <<Scale(value, 12), "p" \o unit>>
    ELSE IF Less(value, -6) THEN <<Scale(value, 9), "n" \o unit>>
    ELSE IF Less(value, -3) THEN <<Scale(value, 6), "u" \o unit>>
    ELSE IF Less(value, 0) THEN <<Scale(value, 3), "m" \o unit>>
    ELSE IF Less(value, 3) THEN <<value, unit>>
    ELSE IF Less(value, 6) THEN <<Scale(value, -3), "k" \o unit>>
    ELSE <<Scale(value, -6), "M" \o unit>>

(***************************************************************************)
(* Inputs of the decoder calls                                             *)
(***************************************************************************)
Pending == [exc |-> "pending"]

NoCall == [fn |-> "none", args |-> <<>>]

\* '/' .. '@': the sixteen nibble characters and their two neighbours
NibbleChars == 47..64

\* "\r\n"
Terminator == <<13, 10>>

\* "0000", "1234", "5000", "9999"
PlainDigits ==
    {<<48, 48, 48, 48>>, <<49, 50, 51, 52>>, <<53, 48, 48, 48>>,
     <<57, 57, 57, 57>>}

\* '0', '7', '+', '-', ' ', '_', 'a'
DigitAlphabet == {48, 55, 43, 45, 32, 95, 97}

DigitStrings ==
    {<<a, b, c, d>> : a \in DigitAlphabet, b \in DigitAlphabet,
                      c \in DigitAlphabet, d \in DigitAlphabet}

\* every exponent and kind character, the flag bits read uses, plain digits
FieldFrames ==
    {<<e0>> \o digits \o <<kind, f0, f1, f2>> \o Terminator :
        e0 \in NibbleChars, digits \in PlainDigits, kind \in NibbleChars,
        f0 \in {48, 49, 52, 56, 60, 64}, f1 \in {48, 64}, f2 \in {48, 64}}

\* every string over DigitAlphabet at positions 1-4 of a voltage or
\* capacitance frame
DigitFrames ==
    {<<e0>> \o digits \o <<kind, 48, 48, 48>> \o Terminator :
        e0 \in {48, 52}, digits \in DigitStrings, kind \in {59, 54}}

\* an empty read, records of 9, 10 and 12 characters
OddFrames ==
    {<<>>,
     <<52, 49, 50, 51, 52, 59, 48, 48, 10>>,
     <<52, 49, 50, 51, 52, 59, 48, 48, 48, 10>>,
     <<52, 49, 50, 51, 52, 59, 48, 48, 48, 48, 13, 10>>}

Frames == FieldFrames \cup DigitFrames \cup OddFrames

ReadCalls ==
    {[fn |-> "read", args |-> <<Serial, line>>] : line \in Frames}
    \cup {[fn |-> "read", args |-> <<None, line>>] : line \in OddFrames}
    \cup {[fn |-> "read", args |-> <<None, <<e0>> \o digits \o
                                    <<59, 48, 48, 48>> \o Terminator>>] :
            e0 \in {48, 52}, digits \in PlainDigits}

ChrCalls == {[fn |-> "chrToInt", args |-> <<c>>] : c \in 0..MaxChar}

UnitCalls ==
    {[fn |-> "getUnit", args |-> <<measurement, <<f0, f1, f2>>>>] :
        measurement \in 0..15, f0 \in 0..15, f1 \in 0..15, f2 \in 0..15}

Units == {"V", "Hz", "Ohm", "F", "A", "uA", "", "mA", "°C", "°F", "???"}

OffsetCalls ==
    {[fn |-> "getExponentOffsetForUnit", args |-> <<unit>>] : unit \in Units}

(***************************************************************************)
(* State after construction: interactive() has parsed its arguments,       *)
(* opened the connection and the output, and is about to enter the loop.   *)
(***************************************************************************)
\* output to a file, output to stdout with the monitor line, and output
\* to a file with the monitor line and a delay of one second
ArgSets ==
    {[output |-> "file", monitor |-> FALSE, delay |-> 0],
     [output |-> "-", monitor |-> TRUE, delay |-> 0],
     [output |-> "file", monitor |-> TRUE, delay |-> 1]}

\* an encoding that has the degree sign of the temperature units, and one
\* that has not
Encodings == {"utf-8", "ascii"}

\* the command lines with what sys.stdout is (a terminal, or a pipe or a
\* file), the encoding of the locale, which open() gives f, and the
\* encoding of sys.stdout; f is sys.stdout when the output is "-"
Environments ==
    {e \in ArgSets \X BOOLEAN \X Encodings \X Encodings :
        e[1].output = "-" => e[3] = e[4]}

Constructed ==
    /\ pc = "loop"
    /\ exc = "none"
    /\ conn = Serial
    /\ port = "open"
    /\ f = "open"
    /\ dirty = FALSE
    /\ current_measurement = ""
    /\ initial_time = 0
    /\ last_time = 0
    /\ clock = 64 * 1000
    /\ out = <<>>
    /\ screen = <<>>
    /\ hist = <<>>

(***************************************************************************)
(* The decoder functions, each applied to an input drawn at the start      *)
(***************************************************************************)
InitCalls ==
    /\ Constructed
    /\ args = [output |-> "file", monitor |-> FALSE, delay |-> 0]
    /\ tty = TRUE
    /\ encoding = [f |-> "utf-8", stdout |-> "utf-8"]
    /\ ret = Pending
    /\ \/ call \in ChrCalls
       \/ call \in UnitCalls
       \/ call \in OffsetCalls
       \/ call \in ReadCalls

loopvars == <<pc, exc, conn, port, f, dirty, args, tty, encoding,
              current_measurement, initial_time, last_time, clock,
              out, screen, hist>>

CallChrToInt ==
    /\ ret = Pending
    /\ call.fn = "chrToInt"
    /\ ret' = chrToInt(call.args[1])
    /\ UNCHANGED <<call, loopvars>>

CallGetUnit ==
    /\ ret = Pending
    /\ call.fn = "getUnit"
    /\ ret' = Return(getUnit(call.args[1], call.args[2]))
    /\ UNCHANGED <<call, loopvars>>

CallGetExponentOffsetForUnit ==
    /\ ret = Pending
    /\ call.fn = "getExponentOffsetForUnit"
    /\ ret' = Return(getExponentOffsetForUnit(call.args[1]))
    /\ UNCHANGED <<call, loopvars>>

CallRead ==
    /\ ret = Pending
    /\ call.fn = "read"
    /\ ret' = read(call.args[1], call.args[2])
    /\ UNCHANGED <<call, loopvars>>

NextCalls ==
    \/ CallChrToInt
    \/ CallGetUnit
    \/ CallGetExponentOffsetForUnit
    \/ CallRead

SpecCalls == InitCalls /\ [][NextCalls]_vars

(***************************************************************************)
(* The streaming loop of interactive()                                     *)
(***************************************************************************)
\* '012349000\r\n': current, A
AmpLine == <<48, 49, 50, 51, 52, 57, 48, 48, 48, 13, 10>>

\* '01234?000\r\n': current, mA
MilliAmpLine == <<48, 49, 50, 51, 52, 63, 48, 48, 48, 13, 10>>

\* '012344800\r\n': temperature, unit bit set
CelsiusLine == <<48, 49, 50, 51, 52, 52, 56, 48, 48, 13, 10>>

\* '41234@000\r\n': '@' at position 5
BadNibbleLine == <<52, 49, 50, 51, 52, 64, 48, 48, 48, 13, 10>>

\* '412347000\r\n': kind nibble 7
UnknownKindLine == <<52, 49, 50, 51, 52, 55, 48, 48, 48, 13, 10>>

\* '4a234;000\r\n': 'a' at position 1
NonDigitLine == <<52, 97, 50, 51, 52, 59, 48, 48, 48, 13, 10>>

\* what conn.readline() can hand to the loop; <<>> is a read that timed out
LoopLines ==
    {AmpLine, MilliAmpLine, CelsiusLine,
     <<>>, BadNibbleLine, UnknownKindLine, NonDigitLine}

\* ticks between the previous time.time() call and the one of line 207
Waits == {2, 4}

\* ticks between the time.time() calls of lines 207 and 218
Lags == {0, 1}

TicksPerSecond == 64

FlagNames ==
    <<"overload", "sign", "not_farenheit", "min", "max", "hold",
      "autorange", "ac", "dc">>

\* the keys of flags_dict whose value is true, in the dict's order
ActiveFlags(flags) == SelectSeq(FlagNames, LAMBDA k : flags[k])

\* "{:.1f}".format(t) for t >= 0 ticks, in tenths of a second: a tick count
\* is an exact binary float, so the tie rounds to even
Format1f(t) ==
    LET q == (t * 10) \div TicksPerSecond
        rem == (t * 10) % TicksPerSecond
    IN  IF 2 * rem > TicksPerSecond THEN q + 1
        ELSE IF 2 * rem = TicksPerSecond THEN q + (q % 2)
        ELSE q

Blank == [type |-> "blank"]

Header(rd) ==
    [type |-> "header", flags |-> ActiveFlags(rd.flags),
     measure |-> rd.measure, unit |-> rd.unit]

DataLine(t, rd) ==
    [type |-> "data", t |-> Format1f(t), value |-> rd.value,
     overload |-> IF rd.flags.overload THEN "1" ELSE "0"]

MonitorLine(rd) ==
    LET p == prettyValueFormat(rd.value, rd.unit)
    IN  [type |-> "monitor", measure |-> rd.measure, pval |-> p[1],
         punit |-> p[2], flags |-> ActiveFlags(rd.flags)]

\* t - last_time < 0.05
Debounced_short(t, last) == 40 * (t - last) < TicksPerSecond

Debounced(t, last) == 20 * (t - last) < TicksPerSecond

\* measure != current_measurement
KindChanged_first(measure, current) == current = ""

KindChanged(measure, current) == measure # current

\* what the history keeps of the reading rd: the clock when it arrived, the
\* position in the output of its data line (0 when it has none) and how the
\* loop body ended on it: "end" when it ran to its last statement or to the
\* `continue` of line 222, else the exception that left it
Seen(rd, at, wrote, ended) ==
    [measure |-> rd.measure, unit |-> rd.unit, at |-> at, wrote |-> wrote,
     ended |-> ended]

Init ==
    /\ Constructed
    /\ \E e \in Environments :
          /\ args = e[1]
          /\ tty = e[2]
          /\ encoding = [f |-> e[3], stdout |-> e[4]]
    /\ call = NoCall
    /\ ret = Pending

\* the locals and streams of interactive() as line 206 leaves them; wrote
\* is the position of the data line of the current reading, 0 before line 224
Locals ==
    [current_measurement |-> current_measurement,
     initial_time |-> initial_time, last_time |-> last_time,
     clock |-> clock, out |-> out, dirty |-> dirty, screen |-> screen,
     wrote |-> 0]

\* f writes through: f is sys.stdout on a terminal, where a write of text
\* with "\n" or "\r" in it (every write of the loop) flushes inside the call
WritesThrough == args.output = "-" /\ tty

\* f.write(x) that returns: x joins the text of the stream, which holds it
\* unflushed unless it writes through
Write(s, x) == [s EXCEPT !.out = Append(@, x), !.dirty = ~WritesThrough]

\* the units spelled with the degree sign
DegreeUnits == {"°C", "°F"}

\* a stream of encoding enc cannot encode the text: it has a degree sign
\* and the encoding has none
Unencodable(enc, degree) == degree /\ enc = "ascii"

\* what a write of text to a stream of encoding enc raises instead of
\* returning: UnicodeEncodeError, always, when the stream cannot encode the
\* text; else OSError (BrokenPipeError is one), possibly, from the flush
\* inside the call when the stream writes through
WriteErrors(through, enc, degree) ==
    IF Unencodable(enc, degree) THEN {"UnicodeEncodeError"}
    ELSE IF through THEN {"OSError"}
    ELSE {}

\* a statement of the loop body: the state after it when it returns, the
\* exceptions it can raise instead, and whether it can return at all
Stmt(s, raises, returns) ==
    [st |-> s, raises |-> raises, returns |-> returns]

\* the statements of S that are reached: those up to the first that cannot
\* return
Reached(S) ==
    LET stuck == {k \in 1..Len(S) : ~S[k].returns}
    IN  IF stuck = {} THEN S
        ELSE SubSeq(S, 1, CHOOSE k \in stuck : \A j \in stuck : k <= j)

\* Lines 206-234 for the reading rd, statement by statement: the state after
\* line 206, then each statement of the body in the order the body executes
\* them when nothing is raised.  time.time() is `wait` ticks past its
\* previous value at line 207 and `lag` ticks further at line 218, where
\* the call has returned (t218) before initial_time is assigned (s218).  A
\* statement that does not apply (no blank line, no monitor, no delay)
\* repeats the state before it and raises nothing, and the `continue` of
\* line 222 or a statement that cannot return ends the sequence.
\* f.flush() has something to write, and so can fail, when f holds
\* unflushed text.
Steps(rd, wait, lag) ==
    LET degree == rd.unit \in DegreeUnits
        s206 == Locals
        s207 == [s206 EXCEPT !.clock = @ + wait]
        s210 == IF current_measurement # "" THEN Write(s207, Blank)
                ELSE s207
        e210 == IF current_measurement # ""
                THEN WriteErrors(WritesThrough, encoding.f, FALSE)
                ELSE {}
        s211 == [s210 EXCEPT !.current_measurement = rd.measure]
        s217 == Write(s211, Header(rd))
        t218 == [s217 EXCEPT !.clock = @ + lag]
        s218 == [t218 EXCEPT !.initial_time = t218.clock]
        s220 == [s218 EXCEPT !.last_time = 0 - 10 * TicksPerSecond]
        head == IF KindChanged(rd.measure, current_measurement)
                THEN <<Stmt(s206, {}, TRUE), Stmt(s207, {}, TRUE),
                       Stmt(s210, e210, TRUE),
                       Stmt(s211, {}, TRUE),
                       Stmt(s217,
                            WriteErrors(WritesThrough, encoding.f, degree),
                            ~Unencodable(encoding.f, degree)),
                       Stmt(t218, {}, TRUE), Stmt(s218, {}, TRUE),
                       Stmt(s220, {}, TRUE)>>
                ELSE <<Stmt(s206, {}, TRUE), Stmt(s207, {}, TRUE)>>
        s221 == head[Len(head)].st
        t    == IF KindChanged(rd.measure, current_measurement) THEN 0
                ELSE s207.clock - initial_time
        s223 == [s221 EXCEPT !.last_time = t]
        s224 == [Write(s223, DataLine(t, rd))
                    EXCEPT !.wrote = Len(s223.out) + 1]
        s225 == [s224 EXCEPT !.dirty = FALSE]
        s232 == IF ~args.monitor THEN s225
                ELSE IF args.output = "-"
                     THEN Write(s225, MonitorLine(rd))
                     ELSE [s225 EXCEPT
                              !.screen = Append(@, MonitorLine(rd))]
        e232 == IF args.monitor
                THEN WriteErrors(tty, encoding.stdout, degree) ELSE {}
        s234 == [s232 EXCEPT !.clock = @ + args.delay * TicksPerSecond]
        r232 == ~args.monitor \/ ~Unencodable(encoding.stdout, degree)
        tail == <<Stmt(s223, {}, TRUE),
                  Stmt(s224, WriteErrors(WritesThrough, encoding.f, FALSE),
                       TRUE),
                  Stmt(s225, IF s224.dirty THEN {"OSError"} ELSE {}, TRUE),
                  Stmt(s232, e232, r232), Stmt(s234, {}, TRUE)>>
    IN  IF Debounced(t, s221.last_time) THEN Reached(head)
        ELSE Reached(head \o tail)

\* the loop body stops in the state s: back at line 203 (pc "loop") or out
\* of the try statement; e is what the history keeps of the reading
Leave(s, e, topc, raised) ==
    /\ current_measurement' = s.current_measurement
    /\ initial_time' = s.initial_time
    /\ last_time' = s.last_time
    /\ clock' = s.clock
    /\ out' = s.out
    /\ dirty' = s.dirty
    /\ screen' = s.screen
    /\ hist' = Append(hist, e)
    /\ pc' = topc
    /\ exc' = raised
    /\ UNCHANGED <<conn, port, f, args, tty, encoding>>

\* Lines 206-234 for the reading rd.  The body runs to its end or to the
\* `continue` of line 222; or KeyboardInterrupt arrives after one of its
\* statements and the except clause of lines 235-236 swallows it; or one
\* of its statements raises, which leaves the state as the statement found
\* it and is not caught.
Process(rd, wait, lag) ==
    LET S  == Steps(rd, wait, lag)
        n  == Len(S)
        at == S[2].st.clock
    IN  /\ KindChanged(rd.measure, current_measurement) \/ lag = 0
        /\ \/ /\ S[n].returns
              /\ Leave(S[n].st, Seen(rd, at, S[n].st.wrote, "end"),
                       "loop", "none")
           \/ \E k \in 1..(n - 1) :
                 Leave(S[k].st,
                       Seen(rd, IF k = 1 THEN clock ELSE at, S[k].st.wrote,
                            "KeyboardInterrupt"),
                       "finally", "none")
           \/ \E k \in 2..n : \E e \in S[k].raises :
                 Leave(S[k - 1].st, Seen(rd, at, S[k - 1].st.wrote, e),
                       "finally", e)

\* One pass through the loop body (lines 203-234) on the record `line`
Iterate(line) ==
    /\ pc = "loop"
    /\ Len(hist) < MaxReads
    /\ LET r == read(conn, line)
       IN
       /\ call' = [fn |-> "read", args |-> <<conn, line>>]
       /\ ret' = r
       /\ IF ~Returned(r)
          THEN /\ pc' = "finally"
               /\ exc' = r.exc
               /\ UNCHANGED <<conn, port, f, dirty, args, tty, encoding,
                              current_measurement, initial_time,
                              last_time, clock, out, screen, hist>>
          ELSE IF r.val = None
          THEN UNCHANGED <<pc, exc, conn, port, f, dirty, args, tty, encoding,
                           current_measurement, initial_time, last_time,
                           clock, out, screen, hist>>
          ELSE \E wait \in Waits, lag \in Lags : Process(r.val, wait, lag)

\* Ctrl-C while readline() blocks: the except clause swallows it.  Ctrl-C
\* while the except clause itself runs (line 236) is not caught by it: the
\* finally clause then runs with KeyboardInterrupt in flight.
KeyboardInterrupt ==
    \/ /\ pc = "loop"
       /\ Len(hist) < MaxReads
       /\ pc' = "finally"
       /\ exc' = "none"
       /\ UNCHANGED <<call, ret, conn, port, f, dirty, args, tty, encoding,
                      current_measurement, initial_time, last_time, clock,
                      out, screen, hist>>
    \/ /\ pc = "finally"
       /\ exc = "none"
       /\ exc' = "KeyboardInterrupt"
       /\ UNCHANGED <<call, ret, pc, conn, port, f, dirty, args, tty, encoding,
                      current_measurement, initial_time, last_time, clock,
                      out, screen, hist>>

\* the serial link fails inside readline()
SerialException ==
    /\ pc = "loop"
    /\ Len(hist) < MaxReads
    /\ pc' = "finally"
    /\ exc' = "SerialException"
    /\ UNCHANGED <<call, ret, conn, port, f, dirty, args, tty, encoding,
                   current_measurement, initial_time, last_time, clock,
                   out, screen, hist>>

\* The finally clause (lines 237-240), statement by statement: the state
\* the clause starts in, the state after f.close() (lines 238-239, skipped
\* for standard output), after self.conn.close() (line 159, skipped when
\* self.conn is unset) and after self.conn = None (line 160).
FinallySteps ==
    LET s237 == [f |-> f, dirty |-> dirty, conn |-> conn, port |-> port]
        s239 == IF args.output # "-"
                THEN [s237 EXCEPT !.f = "closed", !.dirty = FALSE]
                ELSE s237
        s159 == IF conn # None THEN [s239 EXCEPT !.port = "closed"]
                ELSE s239
        s160 == [s159 EXCEPT !.conn = None]
    IN  <<s237, s239, s159, s160>>

\* interactive() is left from the state s of the finally clause
Unwind(s, topc, raised) ==
    /\ f' = s.f
    /\ dirty' = s.dirty
    /\ conn' = s.conn
    /\ port' = s.port
    /\ pc' = topc
    /\ exc' = raised
    /\ UNCHANGED <<call, ret, args, tty, encoding, current_measurement,
                   initial_time, last_time, clock, out, screen, hist>>

\* The finally clause (lines 237-240).  It runs to its end, and
\* interactive() returns or goes on raising what was in flight; or
\* KeyboardInterrupt arrives before or after one of its statements and
\* replaces what was in flight; or f.close() flushes what f still holds
\* and the flush fails, or KeyboardInterrupt arrives while the flush
\* blocks: close() then raises after closing the file, whose buffer
\* flushes once more as it closes, so that the text is lost (dirty) or
\* written after all.  A statement after the one that raises is not
\* reached.
Finally ==
    /\ pc = "finally"
    /\ LET S == FinallySteps
       IN  \/ Unwind(S[4], IF exc = "none" THEN "returned" ELSE "raised",
                     exc)
           \/ \E k \in 1..4 : Unwind(S[k], "raised", "KeyboardInterrupt")
           \/ /\ args.output # "-"
              /\ dirty
              /\ \E e \in {"OSError", "KeyboardInterrupt"}, lost \in BOOLEAN :
                    Unwind([S[1] EXCEPT !.f = "closed", !.dirty = lost],
                           "raised", e)

\* UT803.__del__ once interactive() is left: self.close()
Del ==
    /\ pc \in {"returned", "raised"}
    /\ pc' = "exit"
    /\ conn' = close(conn, port).conn
    /\ port' = close(conn, port).port
    /\ UNCHANGED <<call, ret, exc, f, dirty, args, tty, encoding,
                   current_measurement, initial_time, last_time, clock,
                   out, screen, hist>>

Next ==
    \/ \E line \in LoopLines : Iterate(line)
    \/ KeyboardInterrupt
    \/ SerialException
    \/ Finally
    \/ Del

Spec == Init /\ [][Next]_vars

(***************************************************************************)
(* Properties of the decoder functions, checked under SpecCalls            *)
(***************************************************************************)
Done(fn) == call.fn = fn /\ ret # Pending

\* a read call on a set connection has completed
ReadDone == Done("read") /\ call.args[1] # None

IsNibbleChar(c) == 48 <= c /\ c <= 63

KnownKinds == {1, 2, 3, 4, 5, 6, 9, 11, 13, 14, 15}

\* valid nibbles at positions 0, 5, 6, 7, 8 and a kind of the kind table
NibblesValid(line) ==
    /\ Len(line) = 11
    /\ \A i \in {1, 6, 7, 8, 9} : IsNibbleChar(line[i])
    /\ line[6] - 48 \in KnownKinds

PlainDigitsAt(line) == \A i \in 2..5 : 48 <= line[i] /\ line[i] <= 57

GaveReading(o) == Returned(o) /\ o.val # None

\* C2: an 11-character frame whose kind nibble is 0, 7, 8, 10 or 12 makes
\* read raise (the table lookup fails) and return no reading, whatever the
\* other ten characters are.
C2_UnknownKindRaises ==
    ReadDone
        => LET line == call.args[2]
           IN  (Len(line) = 11 /\ line[6] - 48 \in {0, 7, 8, 10, 12})
                   => ret = Raise("KeyError")

C2_Witness ==
    /\ Done("read")
    /\ call.args[1] # None
    /\ Len(call.args[2]) = 11
    /\ call.args[2][6] = 55
    /\ call.args[2][1] = 47
    /\ ret = Raise("KeyError")

\* C3 (as claimed): with valid nibbles and a known kind, read returns a
\* reading only if positions 1-4 are all plain decimal digits, the base
\* magnitude then being in 0..9999; otherwise read raises.
C3_OnlyPlainDigits ==
    ReadDone
        => LET line == call.args[2]
           IN  NibblesValid(line)
                   => IF PlainDigitsAt(line)
                      THEN /\ GaveReading(ret)
                           /\ ret.val.value.m \in -9999..9999
                      ELSE ~Returned(ret)

\* C4: chrToInt(c) returns codepoint(c) - 48 for '0'..'?' and raises for
\* every other character.
C4_ChrToIntNibble ==
    Done("chrToInt")
        => LET c == call.args[1]
           IN  IF IsNibbleChar(c)
               THEN ret = Return(c - 48) /\ ret.val \in 0..15
               ELSE ret = Raise("TypeError")

C4_Witness ==
    /\ Done("chrToInt")
    /\ call.args[1] = 63
    /\ ret = Return(15)

\* the unit the claim lists for a kind code and the first flag nibble
ClaimedUnit(code, f0) ==
    CASE code = 1 -> "V"
      [] code = 2 -> "Hz"
      [] code = 3 -> "Ohm"
      [] code = 5 -> "Ohm"
      [] code = 6 -> "F"
      [] code = 9 -> "A"
      [] code = 11 -> "V"
      [] code = 13 -> "uA"
      [] code = 14 -> ""
      [] code = 15 -> "mA"
      [] code = 4 -> (IF f0 \div 8 = 1 THEN "°C" ELSE "°F")
      [] OTHER -> "???"

\* C5: getUnit returns, for every kind code 0..15 and every flag triple,
\* the unit of the table (temperature by bit3 of flags[0], "???" for the
\* codes outside the table); the exponent offset of "???" is 0; and read
\* reports kind "current" with the units A, uA, mA for codes 9, 13, 15.
C5_UnitTable ==
    /\ Done("getUnit")
         => ret = Return(ClaimedUnit(call.args[1], call.args[2][1]))
    /\ (Done("getExponentOffsetForUnit") /\ call.args[1] = "???")
         => ret = Return(0)
    /\ (Done("read") /\ GaveReading(ret)
                     /\ call.args[2][6] - 48 \in {9, 13, 15})
         => /\ ret.val.measure = "current"
            /\ ret.val.unit = ClaimedUnit(call.args[2][6] - 48, 0)

C5_Witness ==
    /\ Done("getUnit")
    /\ call.args[1] = 4
    /\ call.args[2] = <<8, 3, 5>>
    /\ ret = Return("°C")

\* the exponent offset the claim lists for a kind code
ClaimedOffset(code) ==
    CASE code \in {1, 11} -> -3
      [] code \in {3, 5} -> -1
      [] code \in {9, 15} -> -2
      [] code = 13 -> -1
      [] code = 6 -> -12
      [] OTHER -> 0

\* C6: for a well-formed frame the value read returns is s * base * 10^x,
\* base the integer at positions 1-4, s = -1 iff bit2 of flags[0] is set,
\* x = e + offset(unit), e = e0 - 2 iff the unit is "V" and bit2 of e0 is
\* set, e = e0 otherwise.
C6_ValueFormula ==
    ReadDone
        => LET line == call.args[2]
               code == line[6] - 48
               e0   == line[1] - 48
               base == (line[2] - 48) * 1000 + (line[3] - 48) * 100
                       + (line[4] - 48) * 10 + (line[5] - 48)
               s    == IF ((line[7] - 48) \div 4) % 2 = 1 THEN -1 ELSE 1
               e    == IF code \in {1, 11} /\ (e0 \div 4) % 2 = 1
                       THEN e0 - 2 ELSE e0
           IN  (NibblesValid(line) /\ PlainDigitsAt(line))
                   => /\ GaveReading(ret)
                      /\ ret.val.value.m = s * base
                      /\ ret.val.value.e = e + ClaimedOffset(code)

\* '41234;000\r\n' reads as 1234 * 10^((4 - 2) - 3) V
C6_Witness ==
    /\ ReadDone
    /\ call.args[2] = <<52, 49, 50, 51, 52, 59, 48, 48, 48, 13, 10>>
    /\ GaveReading(ret)
    /\ ret.val.value = Float(1234, -1)
    /\ ret.val.unit = "V"

(***************************************************************************)
(* Properties of the streaming loop, checked under Spec                    *)
(***************************************************************************)
\* reading i of the history R opens a run: it is the first one or its kind
\* differs from the kind of the reading before it
StartsRun(R, i) == i = 1 \/ R[i].measure # R[i - 1].measure

\* the number of the run reading i belongs to
RunIndex(R, i) == Cardinality({j \in 1..i : StartsRun(R, j)})

\* the positions in the output O that hold a header, in order
RECURSIVE HeaderPositions(_, _)
HeaderPositions(O, w) ==
    IF w = 0 THEN <<>>
    ELSE IF O[w].type = "header"
         THEN Append(HeaderPositions(O, w - 1), w)
         ELSE HeaderPositions(O, w - 1)

\* how many of the header positions P lie before position w
HeadersBefore(P, w) == Cardinality({k \in 1..Len(P) : P[k] < w})

\* C7 (as claimed): one header per maximal run of decoded readings of the
\* same kind, naming that kind; the header of a run is written before every
\* data line of the run, and no data line precedes the first header.
C7_HeaderPerRun ==
    LET R == hist
        P == HeaderPositions(out, Len(out))
    IN  /\ Len(P) = RunIndex(R, Len(R))
        /\ \A i \in 1..Len(R) :
              LET n == RunIndex(R, i)
              IN  /\ n <= Len(P)
                  /\ out[P[n]].measure = R[i].measure
                  /\ R[i].wrote > 0 => HeadersBefore(P, R[i].wrote) = n
        /\ \A w \in 1..Len(out) :
              out[w].type = "data" => HeadersBefore(P, w) > 0

\* C7 (amended): as claimed, except that the run opened by a reading has no
\* header when the loop body is left on that reading, by KeyboardInterrupt
\* or by an error that a write raises, before line 212 has written the
\* header (the reading then has no data line either, and is the last one);
\* every other run has exactly one header, naming its kind and written
\* before every data line of the run, and no data line precedes the first
\* header.
C7_HeaderUnlessLeft ==
    LET R == hist
        P == HeaderPositions(out, Len(out))
    IN  /\ Len(P) <= RunIndex(R, Len(R))
        /\ \A i \in 1..Len(R) :
              LET n == RunIndex(R, i)
              IN  IF n <= Len(P)
                  THEN /\ out[P[n]].measure = R[i].measure
                       /\ R[i].wrote > 0 => HeadersBefore(P, R[i].wrote) = n
                  ELSE /\ i = Len(R)
                       /\ StartsRun(R, i)
                       /\ R[i].ended # "end"
                       /\ R[i].wrote = 0
        /\ \A w \in 1..Len(out) :
              out[w].type = "data" => HeadersBefore(P, w) > 0

\* three readings whose kinds are A, B, A, the body completed on each: three
\* headers, each followed by the data line of its reading
C7_Witness ==
    /\ Len(hist) = 3
    /\ StartsRun(hist, 2)
    /\ StartsRun(hist, 3)
    /\ hist[3].measure = hist[1].measure
    /\ hist[3].ended = "end"
    /\ HeaderPositions(out, Len(out)) = <<1, 4, 7>>
    /\ hist[1].wrote = 2
    /\ hist[2].wrote = 5
    /\ hist[3].wrote = 8

\* the last of the readings 1..upto of R that belongs to run `run` and
\* produced a data line (0 when there is none)
LastWritten(R, run, upto) ==
    LET S == {j \in 1..upto : RunIndex(R, j) = run /\ R[j].wrote > 0}
    IN  IF S = {} THEN 0 ELSE CHOOSE j \in S : \A k \in S : k <= j

\* unless the loop body was left on the last reading before line 224,
\* last_time is the time of the last reading of the current run that
\* produced a data line: a suppressed reading has not changed it
LastTimeKept(R) ==
    (Len(R) > 0 /\ (R[Len(R)].ended = "end" \/ R[Len(R)].wrote > 0))
        => LET p == LastWritten(R, RunIndex(R, Len(R)), Len(R))
           IN  /\ p > 0
               /\ last_time = IF StartsRun(R, p) THEN 0
                              ELSE R[p].at - initial_time

\* C8 (as claimed): the first reading of a run produces a data line; a
\* reading arriving less than 0.05 s after the last reading of its run that
\* produced a data line produces none (so data lines of a run are at least
\* 0.05 s apart) and leaves last_time as it was.
C8_Debounce ==
    LET R == hist
    IN  /\ \A i \in 1..Len(R) :
              IF StartsRun(R, i)
              THEN R[i].wrote > 0
              ELSE LET p == LastWritten(R, RunIndex(R, i), i - 1)
                   IN  /\ p > 0
                       /\ 20 * (R[i].at - R[p].at) < TicksPerSecond
                            => R[i].wrote = 0
        /\ LastTimeKept(R)

\* C8 (amended): as claimed, except that the first reading of a run has no
\* data line when the loop body is left on that reading, by
\* KeyboardInterrupt or by an error that a write raises, before line 224 has
\* written it; every first reading of a run on which the body ran to its
\* end produces a data line.
C8_DebounceUnlessLeft ==
    LET R == hist
    IN  /\ \A i \in 1..Len(R) :
              IF StartsRun(R, i)
              THEN R[i].wrote > 0 \/ R[i].ended # "end"
              ELSE LET p == LastWritten(R, RunIndex(R, i), i - 1)
                   IN  /\ p > 0
                       /\ 20 * (R[i].at - R[p].at) < TicksPerSecond
                            => R[i].wrote = 0
        /\ LastTimeKept(R)

\* three readings of one run: the second arrives 2 ticks after the first
\* and is suppressed, the third arrives 2 ticks later, 4 ticks after the
\* last data line, and is written
C8_Witness ==
    /\ Len(hist) = 3
    /\ ~StartsRun(hist, 2) /\ ~StartsRun(hist, 3)
    /\ hist[2].wrote = 0
    /\ hist[2].ended = "end"
    /\ hist[3].wrote > 0
    /\ hist[3].ended = "end"
    /\ 20 * (hist[3].at - hist[2].at) < TicksPerSecond
    /\ last_time = hist[3].at - initial_time

IsMalformed(line) ==
    \/ Len(line) # 11
    \/ \E i \in {1, 6, 7, 8, 9} : ~IsNibbleChar(line[i])
    \/ ~PlainDigitsAt(line)
    \/ line[6] - 48 \notin KnownKinds

\* C1 (as claimed): a malformed record is skipped silently: conn.read()
\* returns nothing for it, it writes nothing, and the loop is never left
\* with a decoding error.
C1_MalformedSkipped ==
    /\ (Done("read") /\ IsMalformed(call.args[2])) => ret = Return(None)
    /\ exc \notin {"TypeError", "KeyError", "ValueError"}

\* C9 (as claimed): once interactive() has returned or is propagating an
\* error, the output file (unless it is standard output) and the serial
\* connection are closed and the connection is unset; a later close
\* changes nothing.
C9_ClosedOnExit ==
    pc \in {"returned", "raised", "exit"}
        => /\ port = "closed"
           /\ conn = None
           /\ args.output # "-" => f = "closed"
           /\ close(conn, port) = [conn |-> conn, port |-> port]

\* C10 (as claimed): every data line is written under a header that names
\* the unit of the reading the data line carries.
C10_UnitMatchesHeader ==
    LET P == HeaderPositions(out, Len(out))
    IN  \A i \in 1..Len(hist) :
            hist[i].wrote > 0
                => LET n == HeadersBefore(P, hist[i].wrote)
                   IN  n > 0 /\ out[P[n]].unit = hist[i].unit

====
